---- MODULE Spec2Model ----
(***************************************************************************)
(* PropertyLoop real-estate chatbot: the Router, the two specialist agents *)
(* and the Clarification Agent of real_estate_chatbot/agents.py, run as    *)
(* nodes of the Conversation Graph over one Turn State.                    *)
(*                                                                         *)
(* Python values are tagged records [t |-> type, v |-> payload]; a str is  *)
(* a sequence of text fragments, a bytes value a sequence of byte values.  *)
(***************************************************************************)
EXTENDS Integers, Sequences, FiniteSets, TLC

\* ------------------------------------------------------------------ bounds
MaxQueryLen == 1
MaxImageLen == 1
MaxOutLen == 4
MaxItems == 2

\* ------------------------------------------------------------ Python values
None == [t |-> "None", v |-> <<>>]
\* a key or argument that is not there
Missing == [t |-> "missing", v |-> <<>>]
Str(s) == [t |-> "str", v |-> s]
Bytes(b) == [t |-> "bytes", v |-> b]
List(l) == [t |-> "list", v |-> l]
Obj(cls, fields) == [t |-> cls, v |-> fields]

\* bool(x): None, "" and b"" are falsy, everything else truthy
Truthy(x) ==
    CASE x.t = "None" -> FALSE
      [] x.t \in {"str", "bytes", "list"} -> Len(x.v) > 0
      [] OTHER -> TRUE

SeqsUpTo(S, n) == UNION {[1..k -> S] : k \in 0..n}

\* str.strip(): drop leading and trailing whitespace
RECURSIVE LStrip(_)
LStrip(s) == IF s # <<>> /\ Head(s) = " " THEN LStrip(Tail(s)) ELSE s

RECURSIVE RStrip(_)
RStrip(s) ==
    IF s # <<>> /\ s[Len(s)] = " " THEN RStrip(SubSeq(s, 1, Len(s) - 1)) ELSE s

Strip(s) == RStrip(LStrip(s))

\* sub in s: substring containment
Contains(sub, s) ==
    \E i \in 0..(Len(s) - Len(sub)) : SubSeq(s, i + 1, i + Len(sub)) = sub

StartsWith(s, p) == Len(s) >= Len(p) /\ SubSeq(s, 1, Len(p)) = p

\* ------------------------------------------------------- classifier labels
\* The labels of ROUTER_SYSTEM_PROMPT, each written as two text fragments so
\* that containment is a real substring search over the classifier's output.
PROPERTY_ISSUE == <<"PROPERTY_", "ISSUE">>
TENANCY_FAQ == <<"TENANCY_", "FAQ">>
UNCLEAR_ISSUE == <<"UNCLEAR_", "ISSUE">>

OutFragments == {"PROPERTY_", "TENANCY_", "UNCLEAR_", "ISSUE", "FAQ", " "}
Outputs == SeqsUpTo(OutFragments, MaxOutLen)

\* ------------------------------------------------------------ fixed messages
MsgNoInput == Str(<<"Please provide a question or upload an image of a property issue so I can assist you.">>)
MsgNeedImageForIssue == Str(<<"It looks like you're asking about a property issue. Could you upload an image of the issue so I can analyze it better?">>)
MsgUnclear == Str(<<"I'm not sure if you're asking about a property issue or a tenancy question. Could you provide more details or specify which type of assistance you need?">>)
MsgRouterError(e) == Str(<<"I encountered an error routing your query: ", e, ". Could you please rephrase your question?">>)
MsgAgent1NoImage == Str(<<"I need an image to analyze property issues. Please upload a photo of the issue.">>)
MsgAgent1Error(e) == Str(<<"I encountered an error analyzing the image: ", e, ". Please try again with a clearer image.">>)
MsgAgent2NoQuery == Str(<<"I need a question about tenancy or rental properties to assist you.">>)
MsgAgent2Error(e) == Str(<<"I encountered an error answering your question: ", e, ". Please try rephrasing or asking a different question.">>)
MsgClarifyDefault == Str(<<"I need more information to help you. Are you asking about a property issue (please upload an image if so) or do you have a question about tenancy laws and regulations?">>)

\* ------------------------------------------------------------- Turn States
QueryChars == {" ", "q"}
ByteValues == {0, 255}

Queries == {Str(s) : s \in SeqsUpTo(QueryChars, MaxQueryLen)}
Images == {None} \cup {Bytes(b) : b \in SeqsUpTo(ByteValues, MaxImageLen)}
Locations == {None, Str(<<"London, UK">>)}
PriorResponses == {None, Str(<<>>), Str(<<"earlier response">>)}

\* Turn States a node function can be called on; the key next is not yet set.
TurnStates ==
    [query : Queries, image_data : Images, location : Locations,
     response : PriorResponses, sender : {Str(<<"user">>)},
     next : {None}, chat_history : {List(<<>>)}]

\* initial_state as the interface builds it for compiled_graph.invoke:
\* response is None and sender is "user"
InitialStates == {s \in TurnStates : s.response = None}

\* ------------------------------------------------- the hosted model service
NoExc == ""
ConfigurationError == "GOOGLE_API_KEY not set"
ModelError == "model call failed"
ParseError == "structured output could not be parsed"
AttributeError == "'list' object has no attribute 'strip'"

\* config.get_gemini_flash_llm(), config.get_gemini_pro_llm(): a handle, or a
\* Configuration error when the credential is absent
get_gemini_flash_llm(cred) == IF cred THEN NoExc ELSE ConfigurationError
get_gemini_pro_llm(cred) == IF cred THEN NoExc ELSE ConfigurationError

\* what llm.invoke(...) can do: raise, or return a message with some content
Reply(c) == [exc |-> NoExc, content |-> c]
Failure(e) == [exc |-> e, content |-> None]

ClassifierReplies ==
    {Reply(Str(o)) : o \in Outputs} \cup {Reply(List(<<>>)), Failure(ModelError)}

\* ------------------------------------------------------- response schemas
\* the list-valued fields of the schemas: lists of up to MaxItems strings
ItemLists == SeqsUpTo({"item"}, MaxItems)

\* PropertyIssueReport(issue_assessment, troubleshooting_suggestions,
\*                     professional_referral, safety_warnings)
PropertyIssueReport(ia, ts, pr, sw) == Obj("PropertyIssueReport", <<ia, ts, pr, sw>>)
issue_assessment(r) == r.v[1]
troubleshooting_suggestions(r) == r.v[2]
professional_referral(r) == r.v[3]
safety_warnings(r) == r.v[4]

\* TenancyFAQResponse(answer, legal_references, regional_specifics,
\*                    additional_resources, disclaimer)
TenancyFAQResponse(an, lr, rs, ar, di) == Obj("TenancyFAQResponse", <<an, lr, rs, ar, di>>)
answer(r) == r.v[1]
legal_references(r) == r.v[2]
regional_specifics(r) == r.v[3]
additional_resources(r) == r.v[4]
disclaimer(r) == r.v[5]

PropertyIssueReports ==
    {PropertyIssueReport("Visible mold on ceiling", ts, pr, sw) :
        ts \in ItemLists, pr \in ItemLists, sw \in ItemLists}
TenancyFAQResponses ==
    {TenancyFAQResponse("answer", lr, rs, ar, "not legal advice") :
        lr \in ItemLists, rs \in {None, Str(<<>>), Str(<<"regional">>)},
        ar \in ItemLists}

\* pydantic's exception for a field that is required and not supplied
ValidationError == "validation error: field required"

\* the keyword arguments a caller can pass: each field supplied or left out
ReportKwargs ==
    [issue_assessment : {Missing, Str(<<"Visible mold on ceiling">>)},
     troubleshooting_suggestions : {Missing} \cup {List(l) : l \in ItemLists},
     professional_referral : {Missing} \cup {List(l) : l \in ItemLists},
     safety_warnings : {Missing} \cup {List(l) : l \in ItemLists}]

\* PropertyIssueReport(**kw): issue_assessment, troubleshooting_suggestions
\* and professional_referral are declared without a default; safety_warnings
\* has default=[]
PropertyIssueReport_init(kw) ==
    IF \/ kw.issue_assessment = Missing
       \/ kw.troubleshooting_suggestions = Missing
       \/ kw.professional_referral = Missing
    THEN [exc |-> ValidationError, obj |-> None]
    ELSE [exc |-> NoExc,
          obj |-> PropertyIssueReport(kw.issue_assessment.v[1],
                                      kw.troubleshooting_suggestions.v,
                                      kw.professional_referral.v,
                                      IF kw.safety_warnings = Missing
                                      THEN <<>> ELSE kw.safety_warnings.v)]

\* the environment of one node call: is the credential set, and what the
\* model call does if it is made (no call is made without a handle)
Envs(replies) ==
    {[cred |-> FALSE, reply |-> Failure(ConfigurationError)]}
        \cup {[cred |-> TRUE, reply |-> r] : r \in replies}

Agent1Replies ==
    {Reply(r) : r \in PropertyIssueReports} \cup {Failure(ModelError), Failure(ParseError)}
Agent2Replies ==
    {Reply(r) : r \in TenancyFAQResponses} \cup {Failure(ModelError), Failure(ParseError)}

\* ------------------------------------------------------------------- nodes
\* A node call yields the returned state, the exception that left the
\* function (NoExc if none), the exception its handler caught (NoExc if
\* none), the configuration/model calls it made, and, for the router, the
\* content it read from the classifier.
Returned(st, log, seen) ==
    [ret |-> st, exc |-> NoExc, caught |-> NoExc, log |-> log, seen |-> seen]
Raised(st, e, log, seen) ==
    [ret |-> st, exc |-> e, caught |-> NoExc, log |-> log, seen |-> seen]
Caught(st, e, log, seen) ==
    [ret |-> st, exc |-> NoExc, caught |-> e, log |-> log, seen |-> seen]

Route(st, node) == [st EXCEPT !.next = Str(<<node>>)]
RouteWith(st, node, msg) == [st EXCEPT !.next = Str(<<node>>), !.response = msg]
\* variant: the returned mapping built without the caller's location
Respond_without_location(st, resp, who) ==
    [st EXCEPT !.response = resp, !.sender = Str(<<who>>), !.location = None]

Respond(st, resp, who) == [st EXCEPT !.response = resp, !.sender = Str(<<who>>)]

\* variants of the label tests: labels compared for equality / a property
\* issue without an image sent on to agent_1
route_decision_exact(st, router_decision) ==
    IF router_decision = PROPERTY_ISSUE
    THEN IF ~Truthy(st.image_data)
         THEN RouteWith(st, "clarification", MsgNeedImageForIssue)
         ELSE Route(st, "agent_1")
    ELSE IF router_decision = TENANCY_FAQ
    THEN Route(st, "agent_2")
    ELSE RouteWith(st, "clarification", MsgUnclear)

route_decision_issue_to_agent_1(st, router_decision) ==
    IF Contains(PROPERTY_ISSUE, router_decision)
    THEN Route(st, "agent_1")
    ELSE IF Contains(TENANCY_FAQ, router_decision)
    THEN Route(st, "agent_2")
    ELSE RouteWith(st, "clarification", MsgUnclear)

\* the label tests of route_query on the trimmed classifier output
route_decision(st, router_decision) ==
    IF Contains(PROPERTY_ISSUE, router_decision)
    THEN IF ~Truthy(st.image_data)
         THEN RouteWith(st, "clarification", MsgNeedImageForIssue)
         ELSE Route(st, "agent_1")
    ELSE IF Contains(TENANCY_FAQ, router_decision)
    THEN Route(st, "agent_2")
    ELSE RouteWith(st, "clarification", MsgUnclear)

\* the classification step of route_query: handle, model call, label tests
route_classify(st, cred, reply) ==
    IF get_gemini_flash_llm(cred) # NoExc
    THEN Raised(st, get_gemini_flash_llm(cred), <<"get_gemini_flash_llm">>, None)
    ELSE IF reply.exc # NoExc
    THEN Raised(st, reply.exc, <<"get_gemini_flash_llm", "flash.invoke">>, None)
    ELSE IF reply.content.t # "str"
    THEN Raised(st, AttributeError, <<"get_gemini_flash_llm", "flash.invoke">>,
                reply.content)
    ELSE Returned(route_decision(st, Strip(reply.content.v)),
                  <<"get_gemini_flash_llm", "flash.invoke">>, reply.content)

\* variants of the try block: the empty-query test ahead of the image test /
\* the query tested without strip()
route_query_try_query_first(st, cred, reply) ==
    IF ~Truthy(Str(Strip(st.query.v)))
    THEN Returned(RouteWith(st, "clarification", MsgNoInput), <<>>, None)
    ELSE IF Truthy(st.image_data)
    THEN Returned(Route(st, "agent_1"), <<>>, None)
    ELSE route_classify(st, cred, reply)

route_query_try_no_strip(st, cred, reply) ==
    IF Truthy(st.image_data)
    THEN Returned(Route(st, "agent_1"), <<>>, None)
    ELSE IF ~Truthy(st.query)
    THEN Returned(RouteWith(st, "clarification", MsgNoInput), <<>>, None)
    ELSE route_classify(st, cred, reply)

\* variant of the try block: the image test left out
route_query_try_image_ignored(st, cred, reply) ==
    IF ~Truthy(Str(Strip(st.query.v)))
    THEN Returned(RouteWith(st, "clarification", MsgNoInput), <<>>, None)
    ELSE route_classify(st, cred, reply)

\* the try block of route_query
route_query_try(st, cred, reply) ==
    LET query == st.query
        image_data == st.image_data
    IN  IF Truthy(image_data)
        THEN Returned(Route(st, "agent_1"), <<>>, None)
        ELSE IF ~Truthy(Str(Strip(query.v)))
        THEN Returned(RouteWith(st, "clarification", MsgNoInput), <<>>, None)
        ELSE route_classify(st, cred, reply)

\* variants of the handler: no except clause / a handler that forgets next
route_query_no_handler(st, cred, reply) == route_query_try(st, cred, reply)

route_query_handler_without_next(st, cred, reply) ==
    LET r == route_query_try(st, cred, reply)
    IN  IF r.exc # NoExc
        THEN Caught([st EXCEPT !.response = MsgRouterError(r.exc)], r.exc, r.log, r.seen)
        ELSE r

\* variant of the handler: clarification named without a response
route_query_handler_without_response(st, cred, reply) ==
    LET r == route_query_try(st, cred, reply)
    IN  IF r.exc # NoExc
        THEN Caught(Route(st, "clarification"), r.exc, r.log, r.seen)
        ELSE r

\* route_query: the try block under its except Exception handler
route_query(st, cred, reply) ==
    LET r == route_query_try(st, cred, reply)
    IN  IF r.exc # NoExc
        THEN Caught(RouteWith(st, "clarification", MsgRouterError(r.exc)), r.exc, r.log, r.seen)
        ELSE r

\* variant: run_agent_1 without the image guard
run_agent_1_try_no_guard(st, cred, reply) ==
    IF get_gemini_flash_llm(cred) # NoExc
    THEN Raised(st, get_gemini_flash_llm(cred), <<"get_gemini_flash_llm">>, None)
    ELSE IF reply.exc # NoExc
    THEN Raised(st, reply.exc, <<"get_gemini_flash_llm", "flash.invoke">>, None)
    ELSE Returned(Respond(st, reply.content, "agent_1"),
                  <<"get_gemini_flash_llm", "flash.invoke">>, None)

\* the try block of run_agent_1
run_agent_1_try(st, cred, reply) ==
    LET image_data == st.image_data
    IN  IF ~Truthy(image_data)
        THEN Returned(Respond(st, MsgAgent1NoImage, "agent_1"), <<>>, None)
        ELSE IF get_gemini_flash_llm(cred) # NoExc
        THEN Raised(st, get_gemini_flash_llm(cred), <<"get_gemini_flash_llm">>, None)
        ELSE IF reply.exc # NoExc
        THEN Raised(st, reply.exc, <<"get_gemini_flash_llm", "flash.invoke">>, None)
        ELSE Returned(Respond(st, reply.content, "agent_1"),
                      <<"get_gemini_flash_llm", "flash.invoke">>, None)

\* variant: run_agent_1 without its except clause
run_agent_1_no_handler(st, cred, reply) == run_agent_1_try(st, cred, reply)

\* run_agent_1: the try block under its except Exception handler
run_agent_1(st, cred, reply) ==
    LET r == run_agent_1_try(st, cred, reply)
    IN  IF r.exc # NoExc
        THEN Caught(Respond(st, MsgAgent1Error(r.exc), "agent_1"), r.exc, r.log, r.seen)
        ELSE r

\* variant: run_agent_2 without the query guard
run_agent_2_try_no_guard(st, cred, reply) ==
    IF get_gemini_pro_llm(cred) # NoExc
    THEN Raised(st, get_gemini_pro_llm(cred), <<"get_gemini_pro_llm">>, None)
    ELSE IF reply.exc # NoExc
    THEN Raised(st, reply.exc, <<"get_gemini_pro_llm", "pro.invoke">>, None)
    ELSE Returned(Respond(st, reply.content, "agent_2"),
                  <<"get_gemini_pro_llm", "pro.invoke">>, None)

\* the try block of run_agent_2
run_agent_2_try(st, cred, reply) ==
    LET query == st.query
    IN  IF ~Truthy(query)
        THEN Returned(Respond(st, MsgAgent2NoQuery, "agent_2"), <<>>, None)
        ELSE IF get_gemini_pro_llm(cred) # NoExc
        THEN Raised(st, get_gemini_pro_llm(cred), <<"get_gemini_pro_llm">>, None)
        ELSE IF reply.exc # NoExc
        THEN Raised(st, reply.exc, <<"get_gemini_pro_llm", "pro.invoke">>, None)
        ELSE Returned(Respond(st, reply.content, "agent_2"),
                      <<"get_gemini_pro_llm", "pro.invoke">>, None)

\* variant: the model call made a second time after a failure
run_agent_2_retrying(st, cred, reply) ==
    LET r == run_agent_2_try(st, cred, reply)
    IN  IF r.exc # NoExc
        THEN Caught(Respond(st, MsgAgent2Error(r.exc), "agent_2"), r.exc,
                    r.log \o r.log, r.seen)
        ELSE r

\* run_agent_2: the try block under its except Exception handler
run_agent_2(st, cred, reply) ==
    LET r == run_agent_2_try(st, cred, reply)
    IN  IF r.exc # NoExc
        THEN Caught(Respond(st, MsgAgent2Error(r.exc), "agent_2"), r.exc, r.log, r.seen)
        ELSE r

\* variant: ask_clarification that leaves the sender of a set response alone
ask_clarification_keeps_sender(st) ==
    IF Truthy(st.response)
    THEN Returned(st, <<>>, None)
    ELSE Returned(Respond(st, MsgClarifyDefault, "clarification"), <<>>, None)

\* variant: ask_clarification that always writes its default message
ask_clarification_overwrites(st) ==
    Returned(Respond(st, MsgClarifyDefault, "clarification"), <<>>, None)

ask_clarification(st) ==
    IF Truthy(st.response)
    THEN Returned([st EXCEPT !.sender = Str(<<"clarification">>)], <<>>, None)
    ELSE Returned(Respond(st, MsgClarifyDefault, "clarification"), <<>>, None)

\* ------------------------------------------------------ Conversation Graph
Nodes == {"router", "agent_1", "agent_2", "clarification"}
AgentNodes == {"agent_1", "agent_2", "clarification"}

\* the conditional edge out of the router: the node named by next
route_edge(st) ==
    IF st.next.t = "str" /\ Len(st.next.v) = 1 /\ st.next.v[1] \in AgentNodes
    THEN st.next.v[1]
    ELSE "raised"

\* compiled_graph.invoke(initial_state): the router, then the agent its next
\* names, each with its own environment; fault is a failure of the graph
\* machinery itself (NoExc if none)
run_node(node, st, env) ==
    CASE node = "agent_1" -> run_agent_1(st, env.cred, env.reply)
      [] node = "agent_2" -> run_agent_2(st, env.cred, env.reply)
      [] node = "clarification" -> ask_clarification(st)
      [] OTHER -> Raised(st, "unknown node", <<>>, None)

compiled_graph_invoke(initial_state, fault, envR, envA) ==
    IF fault # NoExc
    THEN Raised(initial_state, fault, <<>>, None)
    ELSE LET r == route_query(initial_state, envR.cred, envR.reply)
         IN  IF r.exc # NoExc
             THEN r
             ELSE LET a == run_node(route_edge(r.ret), r.ret, envA)
                  IN  [a EXCEPT !.log = r.log \o a.log]

\* ---------------------------------------------------- Chat Web Interface

\* an uploaded file: the id Streamlit gives the upload (two UploadedFile
\* objects are equal when their ids are) and the bytes getvalue() returns
UploadedFile(id, data) == [t |-> "UploadedFile", v |-> <<id, data>>]
file_id(f) == f.v[1]
getvalue(f) == Bytes(f.v[2])

\* uploaded_file != st.session_state.get('last_file')
FileDiffers(uploaded_file, last) ==
    IF uploaded_file.t = "UploadedFile" /\ last.t = "UploadedFile"
    THEN file_id(uploaded_file) # file_id(last)
    ELSE uploaded_file.t # last.t

\* st.session_state.get('last_file')
session_get(value) == IF value = Missing THEN None ELSE value

\* variant of the guard: a file is needed for the comparison to count
should_submit_needs_file(user_input, uploaded_file, last_file) ==
    \/ Truthy(user_input)
    \/ /\ Truthy(uploaded_file)
       /\ (last_file = Missing \/ FileDiffers(uploaded_file, session_get(last_file)))

\* variant of the guard: any file in the uploader submits
should_submit_any_file(user_input, uploaded_file, last_file) ==
    Truthy(user_input) \/ Truthy(uploaded_file)

\* the turn submission guard:
\* user_input or (uploaded_file and 'last_file' not in st.session_state
\*                or uploaded_file != st.session_state.get('last_file'))
should_submit(user_input, uploaded_file, last_file) ==
    \/ Truthy(user_input)
    \/ (Truthy(uploaded_file) /\ last_file = Missing)
    \/ FileDiffers(uploaded_file, session_get(last_file))

\* base64.b64encode(data).decode(): 3 bytes to 4 sextets, "=" padding
Sextet(n) == ToString(n)

\* variant: only whole groups of 3 bytes encoded
RECURSIVE b64encode_whole_groups(_)
b64encode_whole_groups(b) ==
    IF Len(b) < 3 THEN <<>>
    ELSE <<Sextet(b[1] \div 4), Sextet((b[1] % 4) * 16 + b[2] \div 16),
           Sextet((b[2] % 16) * 4 + b[3] \div 64), Sextet(b[3] % 64)>>
           \o b64encode_whole_groups(SubSeq(b, 4, Len(b)))

RECURSIVE b64encode(_)
b64encode(b) ==
    IF Len(b) = 0 THEN <<>>
    ELSE IF Len(b) = 1
    THEN <<Sextet(b[1] \div 4), Sextet((b[1] % 4) * 16), "=", "=">>
    ELSE IF Len(b) = 2
    THEN <<Sextet(b[1] \div 4), Sextet((b[1] % 4) * 16 + b[2] \div 16),
           Sextet((b[2] % 16) * 4), "=">>
    ELSE <<Sextet(b[1] \div 4), Sextet((b[1] % 4) * 16 + b[2] \div 16),
           Sextet((b[2] % 16) * 4 + b[3] \div 64), Sextet(b[3] % 64)>>
           \o b64encode(SubSeq(b, 4, Len(b)))

\* base64.b64decode(text)
Unsextet(c) == CHOOSE n \in 0..63 : Sextet(n) = c
RECURSIVE b64decode(_)
b64decode(c) ==
    IF Len(c) < 4 THEN <<>>
    ELSE LET n1 == Unsextet(c[1])
             n2 == Unsextet(c[2])
             rest == b64decode(SubSeq(c, 5, Len(c)))
         IN  IF c[3] = "="
             THEN <<n1 * 4 + n2 \div 16>>
             ELSE IF c[4] = "="
             THEN <<n1 * 4 + n2 \div 16, (n2 % 16) * 16 + Unsextet(c[3]) \div 4>>
             ELSE <<n1 * 4 + n2 \div 16, (n2 % 16) * 16 + Unsextet(c[3]) \div 4,
                    (Unsextet(c[3]) % 4) * 64 + Unsextet(c[4])>> \o rest

\* Chat Messages: a key a message does not carry is Missing
Message(role, content, image, property_report, tenancy_response) ==
    [role |-> role, content |-> content, image |-> image,
     property_report |-> property_report, tenancy_response |-> tenancy_response]

\* the user message of a turn
user_message(user_input, uploaded_file) ==
    IF uploaded_file # None
    THEN LET image_bytes == getvalue(uploaded_file)
             image_b64 == Str(b64encode(image_bytes.v))
             message_content ==
                 IF Truthy(user_input)
                 THEN Str(user_input.v \o <<"\n\n[Image attached]">>)
                 ELSE Str(<<"[Image attached]">>)
         IN  Message("user", message_content, image_b64, Missing, Missing)
    ELSE Message("user", user_input, Missing, Missing, Missing)

\* ------------------------------------------------------- sidebar context
PropertyTypes == {"Apartment/Flat", "House", "Condo", "Studio", "Commercial", "Other"}
Occupancies == {"Owner-occupied", "Tenant-occupied", "Vacant", "Not applicable"}
MaxPropertyAge == 100
LocationTexts == {Str(<<>>), Str(<<"London, UK">>)}

Sidebar(pt, oc, age) == [property_type |-> pt, occupancy |-> oc, property_age |-> age]
\* sidebar settings with each of the three fields present and absent
Sidebars ==
    {Sidebar(pt, oc, age) : pt \in PropertyTypes \cap {"House", "Other"},
                            oc \in Occupancies \cap {"Tenant-occupied", "Not applicable"},
                            age \in {0, MaxPropertyAge}}

\* context_info["location"]
context_location(location) == IF Truthy(location) THEN location ELSE None

context_str(location, sidebar) ==
    (IF Truthy(context_location(location))
     THEN <<" Location: ">> \o context_location(location).v \o <<".">> ELSE <<>>)
    \o (IF sidebar.property_type # "Other"
        THEN <<" Property type: ", sidebar.property_type, ".">> ELSE <<>>)
    \o (IF sidebar.occupancy # "Not applicable"
        THEN <<" Occupancy: ", sidebar.occupancy, ".">> ELSE <<>>)
    \o (IF sidebar.property_age > 0
        THEN <<" Property age: ", ToString(sidebar.property_age), " years.">> ELSE <<>>)

\* variant: the context suffix appended to an empty text as well
enhanced_query_always_suffix(user_input, location, sidebar) ==
    LET typed == IF Truthy(user_input) THEN user_input.v ELSE <<>>
    IN  IF Len(context_str(location, sidebar)) > 0
        THEN Str(typed \o <<"\n\nAdditional context:">> \o context_str(location, sidebar))
        ELSE Str(typed)

\* enhanced_query: the typed text, with the context appended when both
\* the context and the text are non-empty
enhanced_query(user_input, location, sidebar) ==
    LET typed == IF Truthy(user_input) THEN user_input.v ELSE <<>>
    IN  IF Len(context_str(location, sidebar)) > 0 /\ Len(typed) > 0
        THEN Str(typed \o <<"\n\nAdditional context:">> \o context_str(location, sidebar))
        ELSE Str(typed)

\* variant: the file left out of a turn that has typed text
initial_state_text_without_image(user_input, uploaded_file, location, sidebar, messages_now) ==
    [query |-> enhanced_query(user_input, location, sidebar),
     image_data |-> IF uploaded_file # None /\ ~Truthy(user_input)
                    THEN getvalue(uploaded_file) ELSE None,
     location |-> context_location(location),
     response |-> None,
     sender |-> Str(<<"user">>),
     next |-> None,
     chat_history |-> List(messages_now)]

\* initial_state of a turn
initial_state(user_input, uploaded_file, location, sidebar, messages_now) ==
    [query |-> enhanced_query(user_input, location, sidebar),
     image_data |-> IF uploaded_file # None THEN getvalue(uploaded_file) ELSE None,
     location |-> context_location(location),
     response |-> None,
     sender |-> Str(<<"user">>),
     next |-> None,
     chat_history |-> List(messages_now)]

\* --------------------------------------------------------------- display
\* one display call and its argument
Markdown(body) == [fn |-> "markdown", val |-> body]
Image(data) == [fn |-> "image", val |-> data]
Error(body) == [fn |-> "error", val |-> body]

\* st.markdown(x) shows str(x)
markdown_text(x) == IF x = None THEN <<"None">> ELSE x.v

\* for i, item in enumerate(items, 1): st.markdown(f"{i}. {item}")
numbered(items) == [i \in 1..Len(items) |-> Markdown(<<ToString(i), ". ", items[i]>>)]

Div(class, body) == Markdown(<<"<div class=\"", class, "\">">> \o body \o <<"</div>">>)
DivOpen(class) == Markdown(<<"<div class=\"", class, "\">">>)
DivClose == Markdown(<<"</div>">>)
Header(title) == Markdown(<<"### ", title>>)

list_section(title, class, items) ==
    <<Header(title), DivOpen(class)>> \o numbered(items) \o <<DivClose>>

\* the header of the safety section (the warning-sign emoji written "(!)")
SafetyWarningsTitle == "(!) Safety Warnings"

\* variant: the live render leaves out the safety warnings
live_property_report_without_warnings(response) ==
    <<Header("Property Issue Assessment"),
      Div("property-issue", <<issue_assessment(response)>>)>>
    \o (IF Len(troubleshooting_suggestions(response)) > 0
        THEN list_section("Troubleshooting Suggestions", "troubleshooting",
                          troubleshooting_suggestions(response))
        ELSE <<>>)
    \o (IF Len(professional_referral(response)) > 0
        THEN list_section("Professional Referrals", "professional-referral",
                          professional_referral(response))
        ELSE <<>>)

\* live render of a PropertyIssueReport
live_property_report(response) ==
    <<Header("Property Issue Assessment"),
      Div("property-issue", <<issue_assessment(response)>>)>>
    \o (IF Len(troubleshooting_suggestions(response)) > 0
        THEN list_section("Troubleshooting Suggestions", "troubleshooting",
                          troubleshooting_suggestions(response))
        ELSE <<>>)
    \o (IF Len(professional_referral(response)) > 0
        THEN list_section("Professional Referrals", "professional-referral",
                          professional_referral(response))
        ELSE <<>>)
    \o (IF Len(safety_warnings(response)) > 0
        THEN list_section(SafetyWarningsTitle, "safety-warning", safety_warnings(response))
        ELSE <<>>)

\* history redraw of a message carrying property_report
redraw_property_report(report) ==
    <<Header("Property Issue Assessment"),
      Div("property-issue", <<issue_assessment(report)>>)>>
    \o (IF Len(troubleshooting_suggestions(report)) > 0
        THEN list_section("Troubleshooting Suggestions", "troubleshooting",
                          troubleshooting_suggestions(report))
        ELSE <<>>)
    \o (IF Len(professional_referral(report)) > 0
        THEN list_section("Professional Referrals", "professional-referral",
                          professional_referral(report))
        ELSE <<>>)
    \o (IF Len(safety_warnings(report)) > 0
        THEN list_section(SafetyWarningsTitle, "safety-warning", safety_warnings(report))
        ELSE <<>>)

\* variant: the Regional Information header emitted whatever the field holds
live_tenancy_response_always_regional(response) ==
    <<Header("Answer"), Div("tenancy-answer", <<answer(response)>>)>>
    \o (IF Len(legal_references(response)) > 0
        THEN list_section("Legal References", "legal-references", legal_references(response))
        ELSE <<>>)
    \o <<Header("Regional Information"),
         Div("regional-specifics", markdown_text(regional_specifics(response)))>>
    \o (IF Len(additional_resources(response)) > 0
        THEN list_section("Additional Resources", "resources", additional_resources(response))
        ELSE <<>>)
    \o <<Div("disclaimer", <<disclaimer(response)>>)>>

\* live render of a TenancyFAQResponse
live_tenancy_response(response) ==
    <<Header("Answer"), Div("tenancy-answer", <<answer(response)>>)>>
    \o (IF Len(legal_references(response)) > 0
        THEN list_section("Legal References", "legal-references", legal_references(response))
        ELSE <<>>)
    \o (IF Truthy(regional_specifics(response))
        THEN <<Header("Regional Information"),
               Div("regional-specifics", regional_specifics(response).v)>>
        ELSE <<>>)
    \o (IF Len(additional_resources(response)) > 0
        THEN list_section("Additional Resources", "resources", additional_resources(response))
        ELSE <<>>)
    \o <<Div("disclaimer", <<disclaimer(response)>>)>>

\* history redraw of a message carrying tenancy_response
redraw_tenancy_response(response) ==
    <<Header("Answer"), Div("tenancy-answer", <<answer(response)>>)>>
    \o (IF Len(legal_references(response)) > 0
        THEN list_section("Legal References", "legal-references", legal_references(response))
        ELSE <<>>)
    \o (IF Truthy(regional_specifics(response))
        THEN <<Header("Regional Information"),
               Div("regional-specifics", regional_specifics(response).v)>>
        ELSE <<>>)
    \o (IF Len(additional_resources(response)) > 0
        THEN list_section("Additional Resources", "resources", additional_resources(response))
        ELSE <<>>)
    \o <<Div("disclaimer", <<disclaimer(response)>>)>>

\* the history redraw of one Chat Message
redraw_message(message) ==
    IF message.role = "user"
    THEN <<Markdown(markdown_text(message.content))>>
         \o (IF message.image # Missing
             THEN <<Image(b64decode(message.image.v))>> ELSE <<>>)
    ELSE IF message.property_report # Missing
    THEN redraw_property_report(message.property_report)
    ELSE IF message.tenancy_response # Missing
    THEN redraw_tenancy_response(message.tenancy_response)
    ELSE <<Markdown(markdown_text(message.content))>>

\* for message in st.session_state.messages: one group of display calls each
redraw(history) == [i \in 1..Len(history) |-> redraw_message(history[i])]

\* failures the interface itself meets: compiled_graph.invoke raising, or a
\* display call raising while the response is rendered
GraphError == "graph invocation failed"
RenderError == "display call failed"
InterfaceFaults == {NoExc, GraphError, RenderError}

IsInstance(x, cls) == x.t = cls

\* variant: the report stored under both structured keys
assistant_message_both_fields(response) ==
    IF IsInstance(response, "PropertyIssueReport")
    THEN Message("assistant", Str(<<"I've analyzed your property issue.">>),
                 Missing, response, response)
    ELSE IF IsInstance(response, "TenancyFAQResponse")
    THEN Message("assistant", Str(<<"I've answered your tenancy question.">>),
                 Missing, Missing, response)
    ELSE Message("assistant", response, Missing, Missing, Missing)

\* the assistant message appended for a response, by its type
assistant_message(response) ==
    IF IsInstance(response, "PropertyIssueReport")
    THEN Message("assistant", Str(<<"I've analyzed your property issue.">>),
                 Missing, response, Missing)
    ELSE IF IsInstance(response, "TenancyFAQResponse")
    THEN Message("assistant", Str(<<"I've answered your tenancy question.">>),
                 Missing, Missing, response)
    ELSE Message("assistant", response, Missing, Missing, Missing)

\* the live render of a response, by its type
live_render(response) ==
    IF IsInstance(response, "PropertyIssueReport")
    THEN live_property_report(response)
    ELSE IF IsInstance(response, "TenancyFAQResponse")
    THEN live_tenancy_response(response)
    ELSE <<Markdown(markdown_text(response))>>

\* except Exception as e: the banner and the assistant message
error_message(e) ==
    Message("assistant", Str(<<"I encountered an error: ", e>>), Missing, Missing, Missing)

\* variant: the failure shown in the banner only
dispatch_error_not_appended(outcome, fault) ==
    IF outcome.exc # NoExc
    THEN [live |-> <<Error(<<"Error processing request: ", outcome.exc>>)>>,
          appended |-> <<>>, error |-> outcome.exc]
    ELSE IF fault = RenderError
    THEN [live |-> <<Error(<<"Error processing request: ", RenderError>>)>>,
          appended |-> <<>>, error |-> RenderError]
    ELSE [live |-> live_render(outcome.ret.response),
          appended |-> <<assistant_message(outcome.ret.response)>>,
          error |-> NoExc]

\* the try block around compiled_graph.invoke: what is displayed, what is
\* appended to messages, and the exception handled (NoExc if none)
dispatch(outcome, fault) ==
    IF outcome.exc # NoExc
    THEN [live |-> <<Error(<<"Error processing request: ", outcome.exc>>)>>,
          appended |-> <<error_message(outcome.exc)>>, error |-> outcome.exc]
    ELSE IF fault = RenderError
    THEN [live |-> <<Error(<<"Error processing request: ", RenderError>>)>>,
          appended |-> <<error_message(RenderError)>>, error |-> RenderError]
    ELSE [live |-> live_render(outcome.ret.response),
          appended |-> <<assistant_message(outcome.ret.response)>>,
          error |-> NoExc]

\* pc: the node about to run ("idle" between invocations, "END" / "raised"
\*     when the invocation has returned / raised)
\* entry: the node the current invocation started at ("router" for the graph)
\* input: the Turn State the invocation was given
\* prev, state: the Turn State before and after the last node that ran
\* calls: configuration and model calls made so far in the invocation
\* visited: the nodes run so far in the invocation, in order
\* router_response: content of the classifier reply the router has just read
\* caught, escaped: exception caught by / raised out of the last node
\* in_flight: the model calls issued and not yet returned
\* messages, last_file, location, location_set: the Session State
\* uploaded_file: the file the uploader widget holds (None if none)
\* rerun: st.rerun() has been called and the script is about to run again
\* render: the last run of the page script; turn: the last submitted turn
\* kwargs: the keyword arguments of a PropertyIssueReport(...) call (Missing
\* for one not passed); constructed: what the call gave
VARIABLES pc, entry, input, prev, state, calls, visited, router_response,
          caught, escaped, in_flight,
          messages, uploaded_file, last_file, location, location_set, rerun,
          render, turn,
          kwargs, constructed

graph_vars == <<pc, entry, input, prev, state, calls, visited, router_response,
                caught, escaped, in_flight>>
session_vars == <<messages, uploaded_file, last_file, location, location_set, rerun,
                  render, turn>>
schema_vars == <<kwargs, constructed>>
vars == <<graph_vars, session_vars, schema_vars>>

EmptyTurn ==
    [query |-> Str(<<>>), image_data |-> None, location |-> None,
     response |-> None, sender |-> Str(<<"user">>), next |-> None,
     chat_history |-> List(<<>>)]

NoRender == [event |-> "none", submitted |-> FALSE, user_input |-> None, drawn |-> <<>>]
NoTurn ==
    [user_input |-> None, uploaded_file |-> None, location |-> Str(<<>>),
     sidebar |-> None, initial_state |-> EmptyTurn, sender |-> None,
     response |-> None, error |-> NoExc, live |-> <<>>, appended |-> <<>>]

\* a fresh session: no messages, no last_file key, empty location box
SessionInit ==
    /\ messages = <<>>
    /\ uploaded_file = None
    /\ last_file = Missing
    /\ location = Str(<<>>)
    /\ location_set = FALSE
    /\ rerun = FALSE
    /\ render = NoRender
    /\ turn = NoTurn

GraphInit ==
    /\ pc = "idle"
    /\ entry = "idle"
    /\ input = EmptyTurn
    /\ prev = EmptyTurn
    /\ state = EmptyTurn
    /\ calls = <<>>
    /\ visited = <<>>
    /\ router_response = None
    /\ caught = NoExc
    /\ escaped = NoExc
    /\ in_flight = {}

\* no report is being constructed
NoKwargs ==
    [issue_assessment |-> Missing, troubleshooting_suggestions |-> Missing,
     professional_referral |-> Missing, safety_warnings |-> Missing]
NotConstructed == [exc |-> "not constructed", obj |-> None]
SchemaInit == kwargs = NoKwargs /\ constructed = NotConstructed

Init == GraphInit /\ SessionInit /\ SchemaInit

\* compiled_graph.invoke(initial_state) when node = "router"; otherwise a
\* node function called on its own with a Turn State
Invoke(s, node) ==
    /\ pc = "idle"
    /\ pc' = node
    /\ entry' = node
    /\ input' = s
    /\ prev' = s
    /\ state' = s
    /\ calls' = <<>>
    /\ visited' = <<>>
    /\ router_response' = None
    /\ caught' = NoExc
    /\ escaped' = NoExc
    /\ UNCHANGED session_vars
    /\ UNCHANGED schema_vars
    /\ UNCHANGED in_flight

\* one node has run with outcome r; control moves to target unless it raised
Step(node, r, target) ==
    /\ visited' = Append(visited, node)
    /\ calls' = calls \o r.log
    /\ caught' = r.caught
    /\ escaped' = r.exc
    /\ prev' = state
    /\ state' = IF r.exc = NoExc THEN r.ret ELSE state
    /\ pc' = IF r.exc = NoExc THEN target ELSE "raised"
    /\ UNCHANGED <<entry, input>>
    /\ UNCHANGED session_vars
    /\ UNCHANGED schema_vars

RouterNode ==
    /\ pc = "router"
    /\ \E env \in Envs(ClassifierReplies) :
          LET r == route_query(state, env.cred, env.reply)
          IN  /\ Step("router", r, route_edge(r.ret))
              /\ router_response' = r.seen
    /\ UNCHANGED in_flight

Agent1Node ==
    /\ pc = "agent_1"
    /\ \E env \in Envs(Agent1Replies) :
          Step("agent_1", run_agent_1(state, env.cred, env.reply), "END")
    /\ router_response' = None
    /\ UNCHANGED in_flight

Agent2Node ==
    /\ pc = "agent_2"
    /\ \E env \in Envs(Agent2Replies) :
          Step("agent_2", run_agent_2(state, env.cred, env.reply), "END")
    /\ router_response' = None
    /\ UNCHANGED in_flight

ClarificationNode ==
    /\ pc = "clarification"
    /\ Step("clarification", ask_clarification(state), "END")
    /\ router_response' = None
    /\ UNCHANGED in_flight

\* the invocation has returned (or raised) to its caller; its locals are gone
Return ==
    /\ pc \in {"END", "raised"}
    /\ pc' = "idle"
    /\ entry' = "idle"
    /\ input' = EmptyTurn
    /\ prev' = EmptyTurn
    /\ state' = EmptyTurn
    /\ calls' = <<>>
    /\ visited' = <<>>
    /\ router_response' = None
    /\ caught' = NoExc
    /\ escaped' = NoExc
    /\ UNCHANGED session_vars
    /\ UNCHANGED schema_vars
    /\ UNCHANGED in_flight

Next ==
    \/ \E s \in InitialStates : Invoke(s, "router")
    \/ \E s \in TurnStates, node \in AgentNodes : Invoke(s, node)
    \/ RouterNode
    \/ Agent1Node
    \/ Agent2Node
    \/ ClarificationNode
    \/ Return

Spec == Init /\ [][Next]_vars

TypeOK ==
    /\ pc \in {"idle", "END", "raised"} \cup Nodes
    /\ entry \in {"idle"} \cup Nodes
    /\ input \in TurnStates

\* ------------------------------------------------------- the page script
MaxTurns == 2

\* what the services around one turn can do: the interface faults, and the
\* environments of the router call and of the agent calls
World(faults, router, agent_1, agent_2) ==
    [faults |-> faults, router |-> router, agent_1 |-> agent_1, agent_2 |-> agent_2]
AgentEnvs(world, node) ==
    CASE node = "agent_1" -> world.agent_1
      [] node = "agent_2" -> world.agent_2
      [] OTHER -> {[cred |-> TRUE, reply |-> Failure(NoExc)]}

\* every reply of the bounded sets, with and without the credential
FullWorld ==
    World(InterfaceFaults, Envs(ClassifierReplies), Envs(Agent1Replies), Envs(Agent2Replies))

\* for sessions of several turns: one reply of each kind, every interface fault
Live(replies) == {[cred |-> TRUE, reply |-> r] : r \in replies}
SessionWorld ==
    World(InterfaceFaults,
          Live({Reply(Str(TENANCY_FAQ))}),
          Live({Reply(PropertyIssueReport("Visible mold on ceiling",
                                          <<"item">>, <<>>, <<"item">>))}),
          Live({Reply(TenancyFAQResponse("answer", <<"item">>, None, <<>>,
                                         "not legal advice"))}))

\* the sidebar widgets at their defaults
DefaultSidebar == Sidebar("Apartment/Flat", "Owner-occupied", 10)

\* what the user can type and upload
TypedTexts == {Str(<<"q">>)}
UploadedFiles == {UploadedFile(1, <<255>>), UploadedFile(2, <<0>>)}
\* files of one, two and three bytes: every padding of the base64 text
PaddingFiles ==
    {UploadedFile(1, <<255>>), UploadedFile(2, <<0, 255>>), UploadedFile(3, <<16, 0, 255>>)}

\* variant: the turn's messages replace the history
append_turn_replacing(history, um, appended) == <<um>> \o appended

\* st.session_state.messages.append(...) for the user message and then for
\* what the dispatch appends
append_turn(history, um, appended) == history \o <<um>> \o appended

\* the body of the submission branch for one turn
SubmitTurn(user_input, file_now, loc_now, sidebar, world) ==
    LET um == user_message(user_input, file_now)
        st0 == initial_state(user_input, file_now, loc_now, sidebar,
                             Append(messages, um))
    IN  \E fault \in world.faults, envR \in world.router :
          LET rq == route_query(st0, envR.cred, envR.reply)
          IN  \E envA \in AgentEnvs(world, route_edge(rq.ret)) :
                LET outcome == compiled_graph_invoke(
                                   st0, IF fault = GraphError THEN GraphError ELSE NoExc,
                                   envR, envA)
                    d == dispatch(outcome, fault)
                IN  /\ messages' = append_turn(messages, um, d.appended)
                    /\ last_file' = IF Truthy(file_now) THEN file_now ELSE last_file
                    /\ turn' = [user_input |-> user_input,
                                uploaded_file |-> file_now,
                                location |-> loc_now,
                                sidebar |-> sidebar,
                                initial_state |-> st0,
                                sender |-> IF outcome.exc = NoExc
                                           THEN outcome.ret.sender ELSE None,
                                response |-> IF outcome.exc = NoExc
                                             THEN outcome.ret.response ELSE None,
                                error |-> d.error,
                                live |-> d.live,
                                appended |-> <<um>> \o d.appended]

\* one run of the page script from the history redraw on: the widgets hold
\* file_now and loc_now, chat_input returns user_input
ScriptRun(event, user_input, file_now, loc_now, sidebar, world) ==
    LET submit == should_submit(user_input, file_now, last_file)
    IN  /\ render' = [event |-> event, submitted |-> submit,
                      user_input |-> user_input, drawn |-> redraw(messages)]
        /\ uploaded_file' = file_now
        /\ location' = loc_now
        /\ IF submit
           THEN /\ Len(messages) < 2 * MaxTurns
                /\ SubmitTurn(user_input, file_now, loc_now, sidebar, world)
           ELSE UNCHANGED <<messages, last_file, turn>>
        /\ UNCHANGED graph_vars
        /\ UNCHANGED schema_vars

\* what one specification lets the user and the services do: the texts
\* typed, the sidebar settings and the World
Inputs(texts, files, sidebars, world) ==
    [texts |-> texts, files |-> files, sidebars |-> sidebars, world |-> world]

\* the user sends text from the chat input
SubmitText(in) ==
    /\ ~rerun
    /\ \E text \in in.texts, sb \in in.sidebars :
          ScriptRun("text", text, uploaded_file, location, sb, in.world)
    /\ UNCHANGED <<location_set, rerun>>

\* the user puts a file into the uploader
ChooseFile(in) ==
    /\ ~rerun
    /\ \E f \in in.files, sb \in in.sidebars :
          /\ f # uploaded_file
          /\ ScriptRun("upload", None, f, location, sb, in.world)
    /\ UNCHANGED <<location_set, rerun>>

\* the user takes the file out of the uploader
RemoveFile(in) ==
    /\ ~rerun
    /\ uploaded_file # None
    /\ \E sb \in in.sidebars :
          ScriptRun("remove", None, None, location, sb, in.world)
    /\ UNCHANGED <<location_set, rerun>>

\* the user edits the location box: on_change sets location_set, then the
\* script runs
EditLocation(in) ==
    /\ ~rerun
    /\ \E l \in LocationTexts, sb \in in.sidebars :
          /\ l # location
          /\ location_set' = Truthy(l)
          /\ ScriptRun("location", None, uploaded_file, l, sb, in.world)
    /\ UNCHANGED rerun

\* any other widget interaction: the script runs with nothing new
Rerender(in) ==
    /\ ~rerun
    /\ \E sb \in in.sidebars :
          ScriptRun("rerender", None, uploaded_file, location, sb, in.world)
    /\ UNCHANGED <<location_set, rerun>>

\* Clear Chat History: the script stops at st.rerun(), before the redraw
ClearChat ==
    /\ ~rerun
    /\ messages' = <<>>
    /\ location_set' = FALSE
    /\ rerun' = TRUE
    /\ render' = [event |-> "clear", submitted |-> FALSE, user_input |-> None,
                  drawn |-> <<>>]
    /\ turn' = NoTurn
    /\ UNCHANGED <<uploaded_file, last_file, location>>
    /\ UNCHANGED graph_vars
    /\ UNCHANGED schema_vars

\* the run st.rerun() asked for
Rerun(in) ==
    /\ rerun
    /\ rerun' = FALSE
    /\ \E sb \in in.sidebars :
          ScriptRun("rerun", None, uploaded_file, location, sb, in.world)
    /\ UNCHANGED location_set

\* sessions of up to MaxTurns turns: sidebar at its defaults, a few replies
SessionInputs == Inputs(TypedTexts, UploadedFiles, {DefaultSidebar}, SessionWorld)

NextApp ==
    \/ SubmitText(SessionInputs)
    \/ ChooseFile(SessionInputs)
    \/ RemoveFile(SessionInputs)
    \/ EditLocation(SessionInputs)
    \/ Rerender(SessionInputs)
    \/ ClearChat
    \/ Rerun(SessionInputs)

SpecApp == Init /\ [][NextApp]_vars

\* every sidebar setting and location, one reply of each kind
QuietWorld ==
    World({NoExc},
          Live({Reply(Str(TENANCY_FAQ))}),
          Live({Reply(PropertyIssueReport("Visible mold on ceiling",
                                          <<"item">>, <<>>, <<"item">>))}),
          Live({Reply(TenancyFAQResponse("answer", <<"item">>, None, <<>>,
                                         "not legal advice"))}))
QueryInputs == Inputs(TypedTexts, PaddingFiles, Sidebars, QuietWorld)

NextQuery ==
    \/ SubmitText(QueryInputs)
    \/ ChooseFile(QueryInputs)
    \/ RemoveFile(QueryInputs)
    \/ EditLocation(QueryInputs)

SpecQuery == Init /\ [][NextQuery]_vars

\* a single turn with every reply of the agents, then redraws of it
ViewWorld ==
    World(InterfaceFaults,
          Live({Reply(Str(TENANCY_FAQ)), Reply(Str(UNCLEAR_ISSUE))}),
          Envs(Agent1Replies), Envs(Agent2Replies))
ViewInputs == Inputs(TypedTexts, UploadedFiles, {DefaultSidebar}, ViewWorld)

\* the first turn of a session: a text, or an image
FirstText == messages = <<>> /\ SubmitText(ViewInputs)
FirstFile == messages = <<>> /\ ChooseFile(ViewInputs)

NextView ==
    \/ FirstText
    \/ FirstFile
    \/ Rerender(ViewInputs)

SpecView == Init /\ [][NextView]_vars

\* ------------------------------------------------- a turn step by step
\* the model a node calls: the deep model for agent_2, the fast one otherwise
ModelOf(node) == IF node = "agent_2" THEN "pro" ELSE "flash"
ModelCall(node) == [node |-> node, model |-> ModelOf(node)]

\* what a node does on st in environment env
node_outcome(node, st, env) ==
    IF node = "router"
    THEN route_query(st, env.cred, env.reply)
    ELSE run_node(node, st, env)

\* does the node, holding a handle, reach its llm.invoke on st
MakesCall(node, st) ==
    LET r == node_outcome(node, st, [cred |-> TRUE, reply |-> Failure(ModelError)])
    IN  \E i \in 1..Len(r.log) : r.log[i] \in {"flash.invoke", "pro.invoke"}

\* variant: a new run of the script starts while the last one is in the graph
ScriptIdle_any_time == ~rerun

\* the page script runs from top to bottom: chat_input and the uploader are
\* read by a run only after the previous run has ended
ScriptIdle == pc = "idle" /\ ~rerun

\* a run of the script up to compiled_graph.invoke: the user message is
\* appended and initial_state handed to the graph
BeginTurn(event, user_input, file_now, sidebar) ==
    LET um == user_message(user_input, file_now)
        st0 == initial_state(user_input, file_now, location, sidebar,
                             Append(messages, um))
    IN  /\ ScriptIdle
        /\ should_submit(user_input, file_now, last_file)
        /\ Len(messages) < 2 * MaxTurns
        /\ render' = [event |-> event, submitted |-> TRUE,
                      user_input |-> user_input, drawn |-> redraw(messages)]
        /\ uploaded_file' = file_now
        /\ last_file' = IF Truthy(file_now) THEN file_now ELSE last_file
        /\ messages' = Append(messages, um)
        /\ turn' = [user_input |-> user_input, uploaded_file |-> file_now,
                    location |-> location, sidebar |-> sidebar,
                    initial_state |-> st0, sender |-> None,
                    response |-> None, error |-> NoExc,
                    live |-> <<>>, appended |-> <<um>>]
        /\ pc' = "router"
        /\ entry' = "router"
        /\ input' = st0
        /\ prev' = st0
        /\ state' = st0
        /\ calls' = <<>>
        /\ visited' = <<>>
        /\ router_response' = None
        /\ caught' = NoExc
        /\ escaped' = NoExc
        /\ UNCHANGED <<in_flight, location, location_set, rerun>>
        /\ UNCHANGED schema_vars

SendText(in) ==
    \E text \in in.texts, sb \in in.sidebars :
        BeginTurn("text", text, uploaded_file, sb)

AttachFile(in) ==
    \E f \in in.files, sb \in in.sidebars :
        f # uploaded_file /\ BeginTurn("upload", None, f, sb)

DetachFile(in) ==
    /\ uploaded_file # None
    /\ \E sb \in in.sidebars : BeginTurn("remove", None, None, sb)

\* the node at pc sends its request to the model
IssueCall ==
    /\ pc \in Nodes
    /\ MakesCall(pc, state)
    /\ ModelCall(pc) \notin in_flight
    /\ in_flight' = in_flight \cup {ModelCall(pc)}
    /\ UNCHANGED <<pc, entry, input, prev, state, calls, visited, router_response,
                   caught, escaped>>
    /\ UNCHANGED <<session_vars, schema_vars>>

\* the node at pc runs to its return; if it calls the model, the call has
\* been issued and its reply (or failure) arrives now
RunNode(in) ==
    /\ pc \in Nodes
    /\ \E env \in (IF pc = "router" THEN in.world.router ELSE AgentEnvs(in.world, pc)) :
          LET r == node_outcome(pc, state, env)
          IN  /\ (env.cred /\ MakesCall(pc, state)) <=> ModelCall(pc) \in in_flight
              /\ Step(pc, r, IF pc = "router" THEN route_edge(r.ret) ELSE "END")
              /\ router_response' = IF pc = "router" THEN r.seen ELSE None
    /\ in_flight' = in_flight \ {ModelCall(pc)}

\* compiled_graph.invoke has returned or raised: the response is rendered
\* and the assistant message appended
EndTurn(in) ==
    /\ pc \in {"END", "raised"}
    /\ \E fault \in in.world.faults :
          LET outcome == IF fault = GraphError
                         THEN Raised(input, GraphError, <<>>, None)
                         ELSE IF escaped # NoExc
                         THEN Raised(input, escaped, <<>>, None)
                         ELSE Returned(state, <<>>, None)
              d == dispatch(outcome, fault)
          IN  /\ messages' = messages \o d.appended
              /\ turn' = [turn EXCEPT !.sender = IF outcome.exc = NoExc
                                                 THEN outcome.ret.sender ELSE None,
                                      !.response = IF outcome.exc = NoExc
                                                   THEN outcome.ret.response ELSE None,
                                      !.error = d.error,
                                      !.live = d.live,
                                      !.appended = @ \o d.appended]
    /\ pc' = "idle"
    /\ entry' = "idle"
    /\ input' = EmptyTurn
    /\ prev' = EmptyTurn
    /\ state' = EmptyTurn
    /\ calls' = <<>>
    /\ visited' = <<>>
    /\ router_response' = None
    /\ caught' = NoExc
    /\ escaped' = NoExc
    /\ UNCHANGED <<in_flight, uploaded_file, last_file, location, location_set, rerun,
                   render>>
    /\ UNCHANGED schema_vars

NextTurns ==
    \/ SendText(SessionInputs)
    \/ AttachFile(SessionInputs)
    \/ DetachFile(SessionInputs)
    \/ IssueCall
    \/ RunNode(SessionInputs)
    \/ EndTurn(SessionInputs)

SpecTurns == Init /\ [][NextTurns]_vars

\* ------------------------------------------------- schema construction
\* a caller about to construct a report from some keyword arguments
InitSchema ==
    /\ GraphInit
    /\ SessionInit
    /\ kwargs \in ReportKwargs
    /\ constructed = NotConstructed

\* the call PropertyIssueReport(**kwargs)
Construct ==
    /\ constructed = NotConstructed
    /\ constructed' = PropertyIssueReport_init(kwargs)
    /\ UNCHANGED kwargs
    /\ UNCHANGED <<graph_vars, session_vars>>

SpecSchema == InitSchema /\ [][Construct]_vars

\* ------------------------------------------------------------- properties
NextIs(node) == state.next = Str(<<node>>)
SenderIs(node) == state.sender = Str(<<node>>)
LastNode == IF visited = <<>> THEN "none" ELSE visited[Len(visited)]

\* the router of a graph invocation has just returned; prev is what it was given
RouterRan == entry = "router" /\ visited = <<"router">>

IsBlank(s) == \A i \in 1..Len(s) : s[i] = " "
HasImage(st) == st.image_data.t = "bytes" /\ Len(st.image_data.v) > 0
TextOnly(st) == ~HasImage(st) /\ ~IsBlank(st.query.v)
ClassifierSaid(label) ==
    router_response.t = "str" /\ Contains(label, Strip(router_response.v))

\* C1 as stated: whenever image_data is not absent (a byte string of any
\* length, the empty one included) the router returns next = "agent_1",
\* leaves response unset and makes no classification call.
C1_AnyImageRoutesToAgent1 ==
    (RouterRan /\ prev.image_data.t # "None")
        => (NextIs("agent_1") /\ state.response = None /\ calls = <<>>)

\* C1 amended: whenever image_data is a non-empty byte string, whatever the
\* query, the router returns next = "agent_1", leaves response unset and
\* makes no classification call.
C1_NonEmptyImageRoutesToAgent1 ==
    (RouterRan /\ HasImage(prev))
        => (NextIs("agent_1") /\ state.response = None /\ calls = <<>>)

C1_Witness ==
    RouterRan /\ HasImage(prev) /\ IsBlank(prev.query.v) /\ NextIs("agent_1")

\* C2: with image_data absent and the query empty or whitespace-only, the
\* router returns next = "clarification" with the fixed "Please provide a
\* question or upload an image" response and makes no model call.
C2_BlankQueryClarifies ==
    (RouterRan /\ prev.image_data.t = "None" /\ IsBlank(prev.query.v))
        => (NextIs("clarification") /\ state.response = MsgNoInput /\ calls = <<>>)

C2_Witness ==
    /\ RouterRan
    /\ prev.image_data.t = "None"
    /\ Len(prev.query.v) > 0
    /\ IsBlank(prev.query.v)
    /\ state.response = MsgNoInput

\* C3 as stated: on a text-only turn, whenever the trimmed classifier output
\* contains TENANCY_FAQ anywhere, the router returns next = "agent_2" and
\* does not populate response.
C3_TenancyLabelAlwaysAgent2 ==
    (RouterRan /\ TextOnly(prev) /\ ClassifierSaid(TENANCY_FAQ))
        => (NextIs("agent_2") /\ state.response = None)

\* C3 amended: on a text-only turn, whenever the trimmed classifier output
\* contains TENANCY_FAQ and does not contain PROPERTY_ISSUE, the router
\* returns next = "agent_2" and does not populate response.
C3_TenancyLabelWithoutIssueLabel ==
    (RouterRan /\ TextOnly(prev) /\ ClassifierSaid(TENANCY_FAQ)
        /\ ~ClassifierSaid(PROPERTY_ISSUE))
        => (NextIs("agent_2") /\ state.response = None)

C3_Witness ==
    /\ RouterRan
    /\ TextOnly(prev)
    /\ ClassifierSaid(TENANCY_FAQ)
    /\ Strip(router_response.v) # TENANCY_FAQ
    /\ NextIs("agent_2")

\* C4: on a text-only turn whose classifier output does not lead to agent_2,
\* an output containing PROPERTY_ISSUE gives next = "clarification" with the
\* "Could you upload an image" message, and every other output gives
\* next = "clarification" with the "I'm not sure" message.
C4_OtherLabelsClarify ==
    (RouterRan /\ TextOnly(prev) /\ router_response.t = "str" /\ ~NextIs("agent_2"))
        => /\ NextIs("clarification")
           /\ ClassifierSaid(PROPERTY_ISSUE) => state.response = MsgNeedImageForIssue
           /\ ~ClassifierSaid(PROPERTY_ISSUE) => state.response = MsgUnclear

C4_Witness ==
    /\ RouterRan
    /\ TextOnly(prev)
    /\ ClassifierSaid(PROPERTY_ISSUE)
    /\ Strip(router_response.v) # PROPERTY_ISSUE
    /\ state.response = MsgNeedImageForIssue

\* C5: no failure inside the router leaves it: after a failure the returned
\* state has next = "clarification" and the "I encountered an error routing
\* your query: {error}" response, so next is always one of agent_1, agent_2,
\* clarification once the router has run.
C5_RouterContainsFailures ==
    (entry = "router" /\ visited # <<>>)
        => /\ escaped = NoExc
           /\ pc # "raised"
           /\ \E node \in AgentNodes : NextIs(node)
           /\ (RouterRan /\ caught # NoExc)
                 => (NextIs("clarification") /\ state.response = MsgRouterError(caught))
           /\ (RouterRan /\ calls = <<"get_gemini_flash_llm">>)
                 => state.response = MsgRouterError(ConfigurationError)
           /\ (RouterRan /\ router_response.t = "list")
                 => state.response = MsgRouterError(AttributeError)

C5_Witness ==
    RouterRan /\ caught = ConfigurationError /\ NextIs("clarification")

\* C6: a failure inside run_agent_1 (run_agent_2) is returned as a response
\* string beginning "I encountered an error analyzing the image:" ("...
\* answering your question:") with sender agent_1 (agent_2); no exception
\* leaves the agent.
C6_AgentsContainFailures ==
    /\ (LastNode \in {"agent_1", "agent_2"}) => (escaped = NoExc /\ pc # "raised")
    /\ (LastNode = "agent_1" /\ caught # NoExc)
          => /\ state.response.t = "str"
             /\ StartsWith(state.response.v, <<"I encountered an error analyzing the image: ">>)
             /\ SenderIs("agent_1")
    /\ (LastNode = "agent_2" /\ caught # NoExc)
          => /\ state.response.t = "str"
             /\ StartsWith(state.response.v, <<"I encountered an error answering your question: ">>)
             /\ SenderIs("agent_2")
    /\ (LastNode = "agent_1" /\ calls # <<>> /\ calls[Len(calls)] = "get_gemini_flash_llm")
          => state.response = MsgAgent1Error(ConfigurationError)
    /\ (LastNode = "agent_2" /\ calls # <<>> /\ calls[Len(calls)] = "get_gemini_pro_llm")
          => state.response = MsgAgent2Error(ConfigurationError)

C6_Witness ==
    LastNode = "agent_1" /\ caught = ModelError /\ pc = "END" /\ SenderIs("agent_1")

\* C7: run_agent_1 called on a Turn State without image_data returns the
\* "I need an image" response with sender agent_1, creating no model handle
\* and making no model call, whatever the query.
C7_Agent1NeedsImage ==
    (entry = "agent_1" /\ visited = <<"agent_1">> /\ input.image_data.t = "None")
        => (state.response = MsgAgent1NoImage /\ SenderIs("agent_1") /\ calls = <<>>)

C7_Witness ==
    /\ entry = "agent_1"
    /\ visited = <<"agent_1">>
    /\ input.image_data.t = "None"
    /\ ~IsBlank(input.query.v)
    /\ state.response = MsgAgent1NoImage

\* C8: run_agent_2 called on a Turn State with query = "" returns the
\* "I need a question" response with sender agent_2, creating no model handle
\* and making no model call, whatever the location.
C8_Agent2NeedsQuery ==
    (entry = "agent_2" /\ visited = <<"agent_2">> /\ Len(input.query.v) = 0)
        => (state.response = MsgAgent2NoQuery /\ SenderIs("agent_2") /\ calls = <<>>)

C8_Witness ==
    /\ entry = "agent_2"
    /\ visited = <<"agent_2">>
    /\ Len(input.query.v) = 0
    /\ input.location # None
    /\ state.response = MsgAgent2NoQuery

\* a response that holds something: not None and not the empty string
Populated(r) == r.t # "None" /\ ~(r.t = "str" /\ Len(r.v) = 0)

\* C9: ask_clarification returns a populated response unchanged with sender
\* clarification, writes its default message only when response holds
\* nothing on entry, and makes no model call.
C9_ClarificationPassesThrough ==
    (LastNode = "clarification")
        => /\ SenderIs("clarification")
           /\ Populated(prev.response) => state.response = prev.response
           /\ ~Populated(prev.response) => state.response = MsgClarifyDefault
           /\ entry = "clarification" => calls = <<>>
           /\ \A i \in 1..Len(calls) : calls[i] \in {"get_gemini_flash_llm", "flash.invoke"}
           /\ Len(calls) <= 2

C9_Witness ==
    /\ entry = "router"
    /\ LastNode = "clarification"
    /\ prev.response = MsgNeedImageForIssue
    /\ state.response = MsgNeedImageForIssue
    /\ SenderIs("clarification")

\* C10: a graph invocation runs the router first and then exactly one of
\* agent_1, agent_2, clarification, the one named by next, and then ends:
\* two nodes in all, none twice, the router never after an agent.
C10_TwoHops ==
    (entry = "router")
        => /\ pc \in {"router", "agent_1", "agent_2", "clarification", "END"}
           /\ pc = "router" => visited = <<>>
           /\ pc \in AgentNodes => (visited = <<"router">> /\ NextIs(pc))
           /\ pc = "END" => /\ Len(visited) = 2
                            /\ visited[1] = "router"
                            /\ visited[2] \in AgentNodes
                            /\ NextIs(visited[2])

C10_Witness ==
    entry = "router" /\ pc = "END" /\ visited = <<"router", "agent_2">>

\* C11: when a graph invocation has ended, response is not absent and is a
\* plain string, a Property Issue Report or a Tenancy FAQ Response, and
\* sender is the tag of the agent that ran: sender = next, one of agent_1,
\* agent_2, clarification, never "user".
C11_FinalStateWellFormed ==
    (entry = "router" /\ pc = "END")
        => /\ state.response.t \in {"str", "PropertyIssueReport", "TenancyFAQResponse"}
           /\ state.sender = state.next
           /\ \E node \in AgentNodes : SenderIs(node) /\ LastNode = node
           /\ state.response.t = "PropertyIssueReport" => SenderIs("agent_1")
           /\ state.response.t = "TenancyFAQResponse" => SenderIs("agent_2")

C11_Witness ==
    /\ entry = "router"
    /\ pc = "END"
    /\ caught # NoExc
    /\ state.response.t = "str"
    /\ SenderIs("agent_2")

\* ---------------------------------------------------------------- session
Submitted == render.submitted
NoTextTyped == render.user_input = None
UploaderEmpty == uploaded_file = None
UserMessages == {i \in 1..Len(messages) : messages[i].role = "user"}

\* C12: a page render with no typed text and no file in the uploader never
\* submits a turn, whatever happened on earlier renders; a turn is submitted
\* only on typed text or on a file in the uploader that differs from the
\* last processed one.
C12_NoTextNoFileNeverSubmits ==
    Submitted => (~NoTextTyped \/ ~UploaderEmpty)

\* C13: after a turn has processed an uploaded file, a page render in which
\* the same file is still in the uploader and no text is submitted appends
\* nothing to messages and does not invoke the Conversation Graph again.
SameFileRender ==
    /\ last_file # Missing
    /\ uploaded_file = last_file
    /\ uploaded_file' = uploaded_file
    /\ render'.user_input = None
    /\ render'.event # "clear"

C13_SameFileNoResubmit ==
    [][SameFileRender => (~render'.submitted /\ messages' = messages /\ turn' = turn)]_vars

C13_Witness ==
    /\ render.event = "rerender"
    /\ ~Submitted
    /\ uploaded_file # None
    /\ last_file = uploaded_file
    /\ turn.uploaded_file = uploaded_file
    /\ Len(messages) = 2
    /\ Len(render.drawn) = 2

\* C14: the Clear Chat History action leaves messages with length zero and
\* the location-confirmation flag unset, and the redraw that follows the
\* clear renders none of the earlier messages and does not itself submit a
\* new turn.
C14_ClearLeavesNothing ==
    /\ render.event = "clear" => (Len(messages) = 0 /\ ~location_set /\ rerun)
    /\ render.event = "rerun" => (render.drawn = <<>> /\ ~Submitted /\ Len(messages) = 0)

IsPrefix(a, b) == Len(a) <= Len(b) /\ SubSeq(b, 1, Len(a)) = a

\* C15: session history is append-only except for clear: across any step
\* that is not the Clear Chat History action the previous messages list is
\* a prefix of the new one, so no earlier message (nor its stored image,
\* property_report or tenancy_response) is removed, reordered or rewritten.
C15_AppendOnly ==
    [][render'.event # "clear" => IsPrefix(messages, messages')]_vars

C15_Witness ==
    /\ Len(messages) = 4
    /\ messages[1].image # Missing
    /\ messages[2].property_report # Missing
    /\ SubSeq(messages, 3, 4) = turn.appended
    /\ Submitted

Alternates ==
    /\ Len(messages) % 2 = 0
    /\ \A i \in 1..Len(messages) :
          messages[i].role = IF i % 2 = 1 THEN "user" ELSE "assistant"

\* the last run submitted a turn that appended one user message and then one
\* assistant message, the latter reading as errorText says when the graph
\* invocation or the rendering raised
TurnAppendedPair(errorText(_)) ==
    Submitted =>
        /\ Len(turn.appended) = 2
        /\ turn.appended[1].role = "user"
        /\ turn.appended[2].role = "assistant"
        /\ Len(messages) >= 2
        /\ SubSeq(messages, Len(messages) - 1, Len(messages)) = turn.appended
        /\ turn.error # NoExc =>
              /\ turn.appended[2].content = Str(errorText(turn.error))
              /\ turn.appended[2].property_report = Missing
              /\ turn.appended[2].tenancy_response = Missing
              /\ turn.live = <<Error(<<"Error processing request: ", turn.error>>)>>

ErrorTextWithFullStop(e) == <<"I encountered an error: ", e, ".">>
ErrorTextAsRaised(e) == <<"I encountered an error: ", e>>

\* C16 as stated: every submitted turn appends exactly one user message and
\* then exactly one assistant message on every path, the assistant message
\* reading "I encountered an error: {error}." when an exception escaped the
\* graph invocation or the rendering; messages has even length and
\* alternates user, assistant.
C16_PairWithErrorSentence ==
    Alternates /\ TurnAppendedPair(ErrorTextWithFullStop)

\* C16, amended: the same, the assistant message of the failure path reading
\* "I encountered an error: {error}" with nothing after the error text.
C16_PairWithErrorText ==
    Alternates /\ TurnAppendedPair(ErrorTextAsRaised)

C16_Witness ==
    /\ Submitted
    /\ turn.error \in {GraphError, RenderError}
    /\ Len(messages) = 4
    /\ messages[4] = error_message(turn.error)

\* ------------------------------------------------------------ query text
\* the context fields that are present, in the order Location, Property
\* type, Occupancy, Property age
PresentFields(loc, sb) ==
    LET field(present, text) == IF present THEN text ELSE <<>>
    IN  field(loc # Str(<<>>), <<" Location: ">> \o loc.v \o <<".">>)
        \o field(sb.property_type # "Other", <<" Property type: ", sb.property_type, ".">>)
        \o field(sb.occupancy # "Not applicable", <<" Occupancy: ", sb.occupancy, ".">>)
        \o field(sb.property_age > 0,
                 <<" Property age: ", ToString(sb.property_age), " years.">>)

ContextSuffix(loc, sb) ==
    IF PresentFields(loc, sb) = <<>>
    THEN <<>>
    ELSE <<"\n\nAdditional context:">> \o PresentFields(loc, sb)

TypedText == IF turn.user_input = None THEN <<>> ELSE turn.user_input.v
QueryPassed == turn.initial_state.query

\* C17 as stated: for every submitted turn, with or without typed text, the
\* query passed to the graph is the typed text (or the empty string)
\* followed by the "Additional context:" suffix whenever a context field is
\* present.
C17_EveryTurnCarriesContext ==
    Submitted => QueryPassed = Str(TypedText \o ContextSuffix(turn.location, turn.sidebar))

\* C17, amended: for a submitted turn with typed text the query is the typed
\* text followed by the "Additional context:" suffix listing exactly the
\* present fields in the order Location, Property type, Occupancy, Property
\* age (the typed text unchanged when none is present); for a submitted turn
\* without typed text the query is the empty string whatever the context.
C17_TypedTurnCarriesContext ==
    Submitted =>
        QueryPassed = IF TypedText # <<>>
                      THEN Str(TypedText \o ContextSuffix(turn.location, turn.sidebar))
                      ELSE Str(<<>>)

C17_Witness ==
    /\ Submitted
    /\ TypedText # <<>>
    /\ turn.uploaded_file # None
    /\ turn.location # Str(<<>>)
    /\ turn.sidebar = Sidebar("House", "Tenant-occupied", MaxPropertyAge)
    /\ Len(QueryPassed.v) = 14

\* ----------------------------------------------------------------- display
\* the titles of the section headers among display calls, in order
IsHeader(call) == call.fn = "markdown" /\ Len(call.val) = 2 /\ call.val[1] = "### "
RECURSIVE Titles(_)
Titles(callSeq) ==
    IF callSeq = <<>> THEN <<>>
    ELSE (IF IsHeader(Head(callSeq)) THEN <<Head(callSeq).val[2]>> ELSE <<>>)
         \o Titles(Tail(callSeq))

\* the display calls from the header titled title up to the next header
RECURSIVE UpToHeader(_)
UpToHeader(callSeq) ==
    IF callSeq = <<>> \/ IsHeader(Head(callSeq)) THEN <<>>
    ELSE <<Head(callSeq)>> \o UpToHeader(Tail(callSeq))
RECURSIVE SectionBody(_, _)
SectionBody(callSeq, title) ==
    IF callSeq = <<>> THEN <<>>
    ELSE IF IsHeader(Head(callSeq)) /\ Head(callSeq).val[2] = title
    THEN UpToHeader(Tail(callSeq))
    ELSE SectionBody(Tail(callSeq), title)

\* the numbered lines of a section body, in order
IsNumberedLine(call) == call.fn = "markdown" /\ Len(call.val) = 3 /\ call.val[2] = ". "
NumberedLines(callSeq) == SelectSeq(callSeq, IsNumberedLine)
NumberedFromOne(callSeq, items) ==
    /\ Len(NumberedLines(callSeq)) = Len(items)
    /\ \A i \in 1..Len(items) :
          NumberedLines(callSeq)[i].val = <<ToString(i), ". ", items[i]>>

Titled(present, title) == IF present THEN <<title>> ELSE <<>>

\* the section sequence of a Property Issue Report
ReportSections(callSeq, r) ==
    /\ Titles(callSeq)
         = <<"Property Issue Assessment">>
           \o Titled(troubleshooting_suggestions(r) # <<>>, "Troubleshooting Suggestions")
           \o Titled(professional_referral(r) # <<>>, "Professional Referrals")
           \o Titled(safety_warnings(r) # <<>>, SafetyWarningsTitle)
    /\ IsHeader(callSeq[1])
    /\ \E i \in 1..Len(SectionBody(callSeq, "Property Issue Assessment")) :
          issue_assessment(r) \in
              {SectionBody(callSeq, "Property Issue Assessment")[i].val[j] :
                  j \in 1..Len(SectionBody(callSeq, "Property Issue Assessment")[i].val)}
    /\ NumberedFromOne(SectionBody(callSeq, "Troubleshooting Suggestions"),
                       troubleshooting_suggestions(r))
    /\ NumberedFromOne(SectionBody(callSeq, "Professional Referrals"),
                       professional_referral(r))
    /\ NumberedFromOne(SectionBody(callSeq, SafetyWarningsTitle), safety_warnings(r))

LastMessage == messages[Len(messages)]
TurnGave(cls) == turn.error = NoExc /\ turn.response.t = cls
Redrawn == ~Submitted /\ render.event = "rerender" /\ Len(render.drawn) = Len(messages)

\* C18: a Property Issue Report returned by the graph is stored unchanged in
\* the appended assistant message's property_report field, and the live
\* render and a later history redraw of that message produce the same
\* section sequence: Property Issue Assessment, then Troubleshooting
\* Suggestions, Professional Referrals, Safety Warnings, each list section
\* present iff its list is non-empty and numbered from 1.
C18_ReportStoredAndRenderedAlike ==
    (Len(messages) > 0 /\ TurnGave("PropertyIssueReport")) =>
        /\ LastMessage.property_report = turn.response
        /\ ReportSections(turn.live, turn.response)
        /\ Redrawn => /\ render.drawn[Len(messages)] = turn.live
                      /\ ReportSections(render.drawn[Len(messages)],
                                        LastMessage.property_report)

C18_Witness ==
    /\ Redrawn
    /\ Len(messages) = 2
    /\ TurnGave("PropertyIssueReport")
    /\ Len(troubleshooting_suggestions(turn.response)) = MaxItems
    /\ professional_referral(turn.response) = <<>>
    /\ Len(safety_warnings(turn.response)) = 1
    /\ Len(Titles(render.drawn[2])) = 3

\* the section sequence of a Tenancy FAQ Response
RegionalPresent(r) ==
    regional_specifics(r) # None /\ regional_specifics(r) # Str(<<>>)
TenancySections(callSeq, r) ==
    /\ Titles(callSeq)
         = <<"Answer">>
           \o Titled(legal_references(r) # <<>>, "Legal References")
           \o Titled(RegionalPresent(r), "Regional Information")
           \o Titled(additional_resources(r) # <<>>, "Additional Resources")
    /\ callSeq[1] = Header("Answer")
    /\ callSeq[Len(callSeq)] = Div("disclaimer", <<disclaimer(r)>>)
    /\ NumberedFromOne(SectionBody(callSeq, "Legal References"), legal_references(r))
    /\ NumberedFromOne(SelectSeq(SectionBody(callSeq, "Additional Resources"),
                                 IsNumberedLine),
                       additional_resources(r))

\* C19: rendering a Tenancy FAQ Response, live and on history redraw, emits
\* the Answer section first and the disclaimer last, Legal References iff
\* legal_references is non-empty, Regional Information iff
\* regional_specifics is present, Additional Resources iff
\* additional_resources is non-empty, and no header for an absent or empty
\* field.
C19_TenancySectionsIffPresent ==
    (Len(messages) > 0 /\ TurnGave("TenancyFAQResponse")) =>
        /\ TenancySections(turn.live, turn.response)
        /\ Redrawn => TenancySections(render.drawn[Len(messages)],
                                      LastMessage.tenancy_response)

C19_Witness ==
    /\ Redrawn
    /\ Len(messages) = 2
    /\ TurnGave("TenancyFAQResponse")
    /\ regional_specifics(turn.response) = Str(<<>>)
    /\ additional_resources(turn.response) = <<>>
    /\ Len(legal_references(turn.response)) = MaxItems
    /\ Titles(render.drawn[2]) = <<"Answer", "Legal References">>

\* C20: the assistant message appended for a turn is determined by the kind
\* of response: a Property Issue Report gives the fixed summary "I've
\* analyzed your property issue." with property_report = the report and no
\* tenancy_response; a Tenancy FAQ Response gives "I've answered your
\* tenancy question." with tenancy_response = the response and no
\* property_report; a plain string gives content = that string with neither
\* structured field; no assistant message carries both structured fields.
C20_MessageByResponseKind ==
    /\ (Submitted /\ turn.error = NoExc) =>
          /\ turn.response.t = "PropertyIssueReport" =>
                LastMessage = Message("assistant",
                                      Str(<<"I've analyzed your property issue.">>),
                                      Missing, turn.response, Missing)
          /\ turn.response.t = "TenancyFAQResponse" =>
                LastMessage = Message("assistant",
                                      Str(<<"I've answered your tenancy question.">>),
                                      Missing, Missing, turn.response)
          /\ turn.response.t = "str" =>
                LastMessage = Message("assistant", turn.response,
                                      Missing, Missing, Missing)
          /\ turn.response.t \in {"PropertyIssueReport", "TenancyFAQResponse", "str"}
    /\ \A i \in 1..Len(messages) :
          messages[i].property_report = Missing \/ messages[i].tenancy_response = Missing

C20_Witness ==
    /\ Submitted
    /\ turn.error = NoExc
    /\ turn.response.t = "PropertyIssueReport"
    /\ LastMessage.property_report = turn.response
    /\ LastMessage.content = Str(<<"I've analyzed your property issue.">>)

\* ------------------------------------------------------- stored messages
UserMessage == turn.appended[1]
TurnHadFile == turn.uploaded_file # None

\* C21: for a turn submitted with a file in the uploader the stored user
\* message has content "{text}\n\n[Image attached]" when text was typed and
\* "[Image attached]" otherwise, and its image field is the base64 encoding
\* of the file's bytes, so decoding the stored image yields exactly the
\* image_data passed to the graph on that turn; a turn without a file stores
\* the typed text and no image field.
C21_StoredImageDecodesToImageData ==
    Submitted =>
        /\ UserMessage.role = "user"
        /\ TurnHadFile =>
              /\ UserMessage.content
                   = IF TypedText # <<>>
                     THEN Str(TypedText \o <<"\n\n[Image attached]">>)
                     ELSE Str(<<"[Image attached]">>)
              /\ UserMessage.image.t = "str"
              /\ Len(UserMessage.image.v) % 4 = 0
              /\ Bytes(b64decode(UserMessage.image.v)) = turn.initial_state.image_data
              /\ turn.initial_state.image_data = getvalue(turn.uploaded_file)
        /\ ~TurnHadFile =>
              /\ UserMessage.content = turn.user_input
              /\ UserMessage.image = Missing
              /\ turn.initial_state.image_data = None

C21_Witness ==
    /\ Submitted
    /\ TypedText # <<>>
    /\ TurnHadFile
    /\ Len(getvalue(turn.uploaded_file).v) = 2
    /\ UserMessage.image.v[4] = "="
    /\ UserMessage.content = Str(<<"q", "\n\n[Image attached]">>)

\* ---------------------------------------------------------------- schemas
Constructed == constructed # NotConstructed
Rejected == constructed.exc = ValidationError
Given(field) == IF field = Missing THEN <<>> ELSE field.v

\* C22: constructing a Property Issue Report is rejected when the required
\* field issue_assessment is missing, and succeeds when issue_assessment is
\* supplied and any of the list-valued fields is omitted, each omitted list
\* defaulting to the empty list.
C22_OnlyAssessmentRequired ==
    Constructed =>
        IF kwargs.issue_assessment = Missing
        THEN Rejected
        ELSE /\ constructed.exc = NoExc
             /\ constructed.obj
                  = PropertyIssueReport(kwargs.issue_assessment.v[1],
                                        Given(kwargs.troubleshooting_suggestions),
                                        Given(kwargs.professional_referral),
                                        Given(kwargs.safety_warnings))

\* ------------------------------------------------------------- ordering
TurnBegins ==
    /\ Len(messages') = Len(messages) + 1
    /\ messages'[Len(messages')].role = "user"
PreviousTurnAnswered ==
    messages = <<>> \/ messages[Len(messages)].role = "assistant"

TurnStateKeys == {"query", "image_data", "location", "response", "sender", "next",
                 "chat_history"}
\* the node that ran last returned its input with at most the keys in
\* written changed
OnlyWrote(written) == \A k \in TurnStateKeys \ written : state[k] = prev[k]
NodeReturned == visited # <<>> /\ escaped = NoExc

\* C24: functional update with a fixed frame: route_query changes only next
\* (and response, only when it routes to clarification); run_agent_1 and
\* run_agent_2 change only response and sender; ask_clarification changes
\* only sender (and response only when none was populated); the caller's
\* mapping is left as it was; so query, image_data, location and
\* chat_history in the final Turn State equal those of the initial one.
C24_NodesKeepFrame ==
    /\ (NodeReturned /\ LastNode = "router") =>
          /\ OnlyWrote({"next", "response"})
          /\ state.response # prev.response => NextIs("clarification")
    /\ (NodeReturned /\ LastNode \in {"agent_1", "agent_2"}) =>
          OnlyWrote({"response", "sender"})
    /\ (NodeReturned /\ LastNode = "clarification") =>
          /\ OnlyWrote({"response", "sender"})
          /\ state.response # prev.response => ~Populated(prev.response)
    /\ pc # "idle" =>
          \A k \in {"query", "image_data", "location", "chat_history"} :
              state[k] = input[k]
    /\ (visited # <<>> /\ Len(visited) = 1) => prev = input

C24_Witness ==
    /\ entry = "router"
    /\ pc = "END"
    /\ visited = <<"router", "agent_2">>
    /\ state.response.t = "TenancyFAQResponse"
    /\ input.location = Str(<<"London, UK">>)
    /\ state.location = input.location
    /\ state.query = input.query

\* ----------------------------------------------------------- model calls
CallsTo(name) == Cardinality({i \in 1..Len(calls) : calls[i] = name})
ModelCalls == CallsTo("flash.invoke") + CallsTo("pro.invoke")
Turn == entry = "router"
Ran(node) == \E i \in 1..Len(visited) : visited[i] = node

\* C25: model-call budget per turn: the Router makes at most one fast-model
\* call and never a deep-model call; a turn with an image makes no
\* classification call; the deep model is called only by Agent 2 and at most
\* once; no call is repeated after a failure; a turn makes at most two model
\* calls in total and a turn routed to clarification at most one.
C25_ModelCallBudget ==
    /\ (Turn /\ visited = <<"router">>) =>
          /\ CallsTo("flash.invoke") <= 1
          /\ CallsTo("pro.invoke") = 0
          /\ HasImage(input) => calls = <<>>
    /\ CallsTo("pro.invoke") <= 1
    /\ CallsTo("pro.invoke") = 1 => Ran("agent_2")
    /\ CallsTo("flash.invoke") <= 1
    /\ Turn => ModelCalls <= 2
    /\ (Turn /\ Ran("clarification")) => ModelCalls <= 1
    /\ (Turn /\ Ran("router") /\ NextIs("clarification")) => ModelCalls <= 1

C25_Witness ==
    /\ Turn
    /\ pc = "END"
    /\ visited = <<"router", "agent_2">>
    /\ caught = ModelError
    /\ calls = <<"get_gemini_flash_llm", "flash.invoke", "get_gemini_pro_llm", "pro.invoke">>

\* ------------------------------------------------------------- location
\* C26: after any sequence of location-field edits, submitted turns and
\* Clear Chat History actions, the location-confirmation flag location_set
\* is true if and only if the sidebar location field is non-empty.
C26_FlagIffLocationNonEmpty ==
    location_set <=> location # Str(<<>>)

\* ---------------------------------------------------------------- routing
\* C27: route_query returns next = "agent_1" if and only if image_data is
\* present with non-zero length; no classifier output causes agent_1 to be
\* selected, the classification step being reached only when image_data is
\* absent or empty (the agent_1 branch under the PROPERTY_ISSUE label is
\* never taken).
C27_Agent1IffImage ==
    RouterRan =>
        /\ NextIs("agent_1") <=> HasImage(prev)
        /\ NextIs("agent_1") => (calls = <<>> /\ router_response = None)
        /\ calls # <<>> => ~Truthy(prev.image_data)
        /\ ClassifierSaid(PROPERTY_ISSUE) => NextIs("clarification")

C27_Witness ==
    /\ RouterRan
    /\ ClassifierSaid(PROPERTY_ISSUE)
    /\ prev.image_data = Bytes(<<>>)
    /\ ~IsBlank(prev.query.v)
    /\ state.response = MsgNeedImageForIssue

GuardMessages == {MsgAgent1NoImage, MsgAgent2NoQuery, MsgClarifyDefault}

\* C28: within a graph invocation Agent 1 only ever runs with an image
\* present, Agent 2 only with a non-blank query and no image, and the
\* Clarification Agent only with a response already populated by the
\* Router; so the Agent 1 "I need an image" message, the Agent 2 "I need a
\* question" message and the Clarification default message are never the
\* final response of a graph invocation.
C28_GuardsNeverFireInGraph ==
    Turn =>
        /\ (pc = "agent_1" \/ Ran("agent_1")) => HasImage(input)
        /\ (pc = "agent_2" \/ Ran("agent_2")) =>
              (~HasImage(input) /\ ~IsBlank(input.query.v))
        /\ pc = "agent_1" => HasImage(state)
        /\ pc = "agent_2" => (~HasImage(state) /\ Truthy(state.query))
        /\ pc = "clarification" => Populated(state.response)
        /\ Len(visited) = 2 => state.response \notin GuardMessages

C28_Witness ==
    /\ Turn
    /\ pc = "END"
    /\ visited = <<"router", "clarification">>
    /\ caught = NoExc
    /\ prev.response = MsgRouterError(ConfigurationError)
    /\ state.response = prev.response

\* ---------------------------------------------------------- file in place
TextTurnWithFile == Submitted /\ render.event = "text" /\ uploaded_file # None

\* C29: while a non-empty file remains in the uploader, every turn
\* submitted by typing text (also after the turn that first processed the
\* file) carries that file's bytes as image_data, stores the image again in
\* the new user message and is handled by agent_1; agent_2 is not reached
\* until the file is removed from the uploader.
C29_FileStaysAttached ==
    /\ TextTurnWithFile =>
          /\ turn.initial_state.image_data = getvalue(uploaded_file)
          /\ UserMessage.image = Str(b64encode(getvalue(uploaded_file).v))
          /\ turn.error # GraphError => turn.sender = Str(<<"agent_1">>)
          /\ turn.response.t # "TenancyFAQResponse"
    /\ (Submitted /\ uploaded_file # None) => turn.sender # Str(<<"agent_2">>)

C29_Witness ==
    /\ TextTurnWithFile
    /\ Len(messages) = 4
    /\ messages[1].image # Missing
    /\ messages[3].image = messages[1].image
    /\ last_file = uploaded_file
    /\ turn.sender = Str(<<"agent_1">>)
    /\ turn.response.t = "PropertyIssueReport"

\* ------------------------------------------------- user messages carry input
HasText(i) == Truthy(messages[i].content)
HasImageField(i) == messages[i].image # Missing

\* C30: in every reachable session state every user-role message in
\* messages has non-empty text content or carries an image field, after any
\* sequence of uploads, file removals, text submissions and clears.
C30_UserMessagesCarryInput ==
    \A i \in UserMessages : HasText(i) \/ HasImageField(i)

============================================================================
